---- MODULE Spec2Model ----
(***************************************************************************)
(* Classroom booking service (src/main.py): the bookings dictionary, the   *)
(* request-body validators of Booking / UpdateBooking, the time window     *)
(* validator, the availability scan and the five request handlers.         *)
(*                                                                         *)
(* Strings are modelled by what the code does with them:                   *)
(*   - a time string "HH:MM" is the pair <<HH, MM>> and None is <<>>;      *)
(*     strptime turns it into a time object, modelled as minutes of day;   *)
(*   - classroom and name strings are TLA+ strings, str.upper / str.lower  *)
(*     are the operators Upper / Lower;                                    *)
(*   - a date is its proleptic ordinal (date.toordinal()).                 *)
(***************************************************************************)
EXTENDS Integers, Sequences, FiniteSets, TLC

VARIABLES
  bookings,   \* the bookings dictionary: booking id -> record
  order,      \* the keys of the dictionary in insertion order
  today,      \* date.today()
  now,        \* datetime.now().time(), in minutes since midnight
  writes,     \* successful create / update / delete requests so far
  pending,    \* validated requests whose handler has not run yet
  last,       \* the request being served: its answer, or the draw its id
              \* loop holds
  submitted   \* history: id -> body of the create that returned it, kept
              \* until the next write to that id

vars == <<bookings, order, today, now, writes, pending, last, submitted>>

----------------------------------------------------------------------------
(* Bounds of the model *)

\* successful create / update / delete requests explored in one behaviour
MaxWrites == 2
\* requests that may be in flight at once in the concurrent specification
MaxPending == 2

----------------------------------------------------------------------------
(* Program constants *)

\* date(2024, 11, 12).toordinal()
SeedDate == 739202
\* random.randint(10000000, 99999999)
MinId == 10000000
MaxId == 99999999
\* exclude_id: int | None = None
NoneId == 0

NoneStr == "<None>"
NoneDate == 0
NoneTime == <<>>

school_start == 7 * 60
school_end == 18 * 60

Fields == {"name", "classroom", "booking_date", "start_time", "end_time"}

classrooms ==
  << "A101", "A102", "A103", "A104", "B101", "B102", "B103", "B104",
     "C101", "C102", "C103", "C104", "A201", "A202", "A203", "A204",
     "B201", "B202", "B203", "B204", "C201", "C202", "C203", "C204",
     "A301", "A302", "A303", "A304", "B301", "B302", "B303", "B304",
     "C301", "C302", "C303", "C304", "A401", "A402", "A403", "A404",
     "B401", "B402", "B403", "B404", "C401", "C402", "C403", "C404" >>

Range(s) == {s[i] : i \in DOMAIN s}

\* str.upper() on the classroom strings the model uses
Upper(s) ==
  CASE s = "a401" -> "A401"
    [] s = "c301" -> "C301"
    [] s = "b204" -> "B204"
    [] s = "z999" -> "Z999"
    [] OTHER -> s

\* str.lower() on the name strings the model uses
Lower(s) ==
  CASE s = "Joel" -> "joel"
    [] s = "JOEL" -> "joel"
    [] s = "Sami" -> "sami"
    [] s = "Karin" -> "karin"
    [] s = "Lee" -> "lee"
    [] s = "LEE" -> "lee"
    [] OTHER -> s

----------------------------------------------------------------------------
(* The seed bookings *)

Rec(i, n, c, d, s, e) ==
  [id |-> i, name |-> n, classroom |-> c, booking_date |-> d,
   start_time |-> s, end_time |-> e]

SeedBookings ==
  (1 :> Rec(1, "Joel", "A401", SeedDate, <<8, 30>>, <<10, 0>>)) @@
  (2 :> Rec(2, "Sami", "C301", SeedDate, <<8, 30>>, <<10, 0>>)) @@
  (3 :> Rec(3, "Sami", "B204", SeedDate, <<8, 30>>, <<10, 0>>)) @@
  (4 :> Rec(4, "Karin", "A401", SeedDate, <<10, 0>>, <<15, 0>>))

SeedOrder == <<1, 2, 3, 4>>

NullBooking == Rec(NoneId, NoneStr, NoneStr, NoneDate, NoneTime, NoneTime)

----------------------------------------------------------------------------
(* convert_to_time_objects and validate_times *)

\* datetime.strptime(s, "%H:%M") succeeds
IsTimeStr(s) == Len(s) = 2 /\ s[1] \in 0..23 /\ s[2] \in 0..59

\* the time object, as minutes since midnight
ToTime(s) == s[1] * 60 + s[2]

Minute(t) == t % 60

\* convert_to_time_objects raises HTTPException 422 unless both parse
ConvertOk(start_time_str, end_time_str) ==
  IsTimeStr(start_time_str) /\ IsTimeStr(end_time_str)

\* validate_times without its last check (the one-hour minimum)
validate_times_no_duration(search_date, start_time_str, end_time_str) ==
  IF ~ConvertOk(start_time_str, end_time_str) THEN "MalformedTime"
  ELSE LET start_time == ToTime(start_time_str)
           end_time == ToTime(end_time_str)
       IN IF start_time < school_start \/ end_time > school_end
            THEN "OutOfHours"
          ELSE IF ~((Minute(start_time) = 0 \/ Minute(start_time) = 30)
                    /\ (Minute(end_time) = 0 \/ Minute(end_time) = 30))
            THEN "NotHalfHourAligned"
          ELSE IF search_date = today
                  /\ (start_time < now \/ end_time < now)
            THEN "PastTime"
          ELSE "ok"

\* validate_times with the opening hour itself refused
validate_times_after_opening(search_date, start_time_str, end_time_str) ==
  IF ~ConvertOk(start_time_str, end_time_str) THEN "MalformedTime"
  ELSE LET start_time == ToTime(start_time_str)
           end_time == ToTime(end_time_str)
       IN IF start_time <= school_start \/ end_time > school_end
            THEN "OutOfHours"
          ELSE IF ~((Minute(start_time) = 0 \/ Minute(start_time) = 30)
                    /\ (Minute(end_time) = 0 \/ Minute(end_time) = 30))
            THEN "NotHalfHourAligned"
          ELSE IF search_date = today
                  /\ (start_time < now \/ end_time < now)
            THEN "PastTime"
          ELSE IF end_time - start_time < 60
            THEN "TooShort"
          ELSE "ok"

\* validate_times with a past-time check that looks at the end time only
validate_times_end_past(search_date, start_time_str, end_time_str) ==
  IF ~ConvertOk(start_time_str, end_time_str) THEN "MalformedTime"
  ELSE LET start_time == ToTime(start_time_str)
           end_time == ToTime(end_time_str)
       IN IF start_time < school_start \/ end_time > school_end
            THEN "OutOfHours"
          ELSE IF ~((Minute(start_time) = 0 \/ Minute(start_time) = 30)
                    /\ (Minute(end_time) = 0 \/ Minute(end_time) = 30))
            THEN "NotHalfHourAligned"
          ELSE IF search_date = today /\ end_time < now
            THEN "PastTime"
          ELSE IF end_time - start_time < 60
            THEN "TooShort"
          ELSE "ok"

\* validate_times with the alignment check ahead of the opening hours check
validate_times_aligned_first(search_date, start_time_str, end_time_str) ==
  IF ~ConvertOk(start_time_str, end_time_str) THEN "MalformedTime"
  ELSE LET start_time == ToTime(start_time_str)
           end_time == ToTime(end_time_str)
       IN IF ~((Minute(start_time) = 0 \/ Minute(start_time) = 30)
               /\ (Minute(end_time) = 0 \/ Minute(end_time) = 30))
            THEN "NotHalfHourAligned"
          ELSE IF start_time < school_start \/ end_time > school_end
            THEN "OutOfHours"
          ELSE IF search_date = today
                  /\ (start_time < now \/ end_time < now)
            THEN "PastTime"
          ELSE IF end_time - start_time < 60
            THEN "TooShort"
          ELSE "ok"

validate_times(search_date, start_time_str, end_time_str) ==
  IF ~ConvertOk(start_time_str, end_time_str) THEN "MalformedTime"
  ELSE LET start_time == ToTime(start_time_str)
           end_time == ToTime(end_time_str)
       IN IF start_time < school_start \/ end_time > school_end
            THEN "OutOfHours"
          ELSE IF ~((Minute(start_time) = 0 \/ Minute(start_time) = 30)
                    /\ (Minute(end_time) = 0 \/ Minute(end_time) = 30))
            THEN "NotHalfHourAligned"
          ELSE IF search_date = today
                  /\ (start_time < now \/ end_time < now)
            THEN "PastTime"
          ELSE IF end_time - start_time < 60
            THEN "TooShort"
          ELSE "ok"

----------------------------------------------------------------------------
(* Request bodies: the Booking / UpdateBooking models.  fields_set is        *)
(* pydantic's model_fields_set; a field that is not set holds its default. *)

Body(fs, n, c, d, s, e) ==
  [fields_set |-> fs, id |-> NoneId, name |-> n, classroom |-> c,
   booking_date |-> d, start_time |-> s, end_time |-> e]

\* the body b with an id supplied as well
WithId(b, i) == [b EXCEPT !.id = i, !.fields_set = @ \cup {"id"}]

NoBody == Body({}, NoneStr, NoneStr, NoneDate, NoneTime, NoneTime)

\* Booking.validate_classroom raises ValueError
ClassroomError(b) ==
  "classroom" \in b.fields_set /\ Upper(b.classroom) \notin Range(classrooms)

\* Booking.validate_booking_date raises ValueError
DateError(b) ==
  "booking_date" \in b.fields_set /\ b.booking_date < today

\* Booking.validate_time_string, run when end_time is supplied: "ok" or the
\* kind of the HTTPException it raises.  info.data holds the fields validated
\* so far: a field that is not set holds None, a field that failed is absent.
validate_time_string(b) ==
  LET start_time == b.start_time
      booking_date == IF DateError(b) THEN NoneDate ELSE b.booking_date
  IN IF ~ConvertOk(start_time, b.end_time) THEN "MalformedTime"
     ELSE IF booking_date # NoneDate
       THEN validate_times(booking_date, start_time, b.end_time)
     ELSE "ok"

\* Validation of the request body, before the handler runs: "ok" or the kind
\* of the 422 answer.  An HTTPException raised in a validator ends the
\* validation at once; ValueErrors are collected into one 422 answer.
ValidateBody(b) ==
  LET t == IF "end_time" \in b.fields_set THEN validate_time_string(b)
           ELSE "ok"
  IN IF t # "ok" THEN t
     ELSE IF ClassroomError(b) THEN "InvalidClassroom"
     ELSE IF DateError(b) THEN "PastDate"
     ELSE "ok"

\* validate_classroom returning the value as it was given
ValidatedAsGiven(b) == b

\* the validated model: validate_classroom returns value.upper()
Validated(b) ==
  [b EXCEPT !.classroom = IF "classroom" \in b.fields_set THEN Upper(@) ELSE @]

\* old.copy() updated with model_dump(), the fields that were not set included
MergeUnset(old, b) ==
  [f \in DOMAIN old |-> IF f \in Fields THEN b[f] ELSE old[f]]

\* the keys of model_dump(exclude_unset=True) if id were a field like the
\* others
NewDataFieldsWithId(b) == b.fields_set

\* the keys of new_data = model_dump(exclude_unset=True): the fields that
\* were set, without id, which UpdateBooking declares with exclude=True
NewDataFields(b) == b.fields_set \ {"id"}

\* old.copy() updated with new_data
Merge(old, b) ==
  [f \in DOMAIN old |->
     IF f \in NewDataFields(b) THEN b[f] ELSE old[f]]

----------------------------------------------------------------------------
(* get_unavailable_classrooms: the scan of the dictionary in its order *)

\* an overlap test that only looks for the start of the window inside the
\* existing booking
OverlapsStartOnly(existing_booking, start_time, end_time) ==
  ToTime(existing_booking.end_time) > start_time
    /\ ToTime(existing_booking.start_time) <= start_time

\* an overlap test with closed intervals: abutting windows count as overlap
OverlapsClosed(existing_booking, start_time, end_time) ==
  ToTime(existing_booking.end_time) >= start_time
    /\ ToTime(existing_booking.start_time) <= end_time

Overlaps(existing_booking, start_time, end_time) ==
  ToTime(existing_booking.end_time) > start_time
    /\ ToTime(existing_booking.start_time) < end_time

\* the exclusion with its inner test lost: every booking is skipped once an
\* exclude_id is given
ExcludedAll(exclude_id, id) == exclude_id # NoneId

Excluded(exclude_id, id) == exclude_id # NoneId /\ exclude_id = id

RECURSIVE Scan(_, _, _, _, _)
Scan(keys, search_date, start_time, end_time, exclude_id) ==
  IF keys = <<>> THEN <<>>
  ELSE LET id == Head(keys)
           existing_booking == bookings[id]
           rest == Scan(Tail(keys), search_date, start_time, end_time, exclude_id)
       IN IF Excluded(exclude_id, id) THEN rest
          ELSE IF existing_booking.booking_date = search_date
                  /\ Overlaps(existing_booking, start_time, end_time)
            THEN <<Upper(existing_booking.classroom)>> \o rest
          ELSE rest

get_unavailable_classrooms(search_date, start_time_str, end_time_str, exclude_id) ==
  Scan(order, search_date, ToTime(start_time_str), ToTime(end_time_str), exclude_id)

\* an available list that leaves no classroom out
AvailableClassroomsUnfiltered(unavailable_classrooms) ==
  [i \in DOMAIN classrooms |-> Upper(classrooms[i])]

\* the available list of get_available_classrooms, in catalog order
AvailableClassrooms(unavailable_classrooms) ==
  SelectSeq([i \in DOMAIN classrooms |-> Upper(classrooms[i])],
            LAMBDA c : c \notin Range(unavailable_classrooms))

----------------------------------------------------------------------------
(* Answers *)

Answer(op, id, name, body, status, kind, booking, av, unav) ==
  [op |-> op, id |-> id, name |-> name, body |-> body, status |-> status,
   kind |-> kind, booking |-> booking, available |-> av, unavailable |-> unav]

Fail(op, id, name, body, status, kind) ==
  Answer(op, id, name, body, status, kind, NullBooking, <<>>, <<>>)

\* the connections a request can arrive on, and an empty one
Clients == 1..MaxPending

Request(op, id, name, body) == [op |-> op, id |-> id, name |-> name, body |-> body]

NoRequest == Request("none", NoneId, NoneStr, NoBody)

\* no request is being served
Idle == Fail("idle", NoneId, NoneStr, NoBody, 0, "none")

Init ==
  /\ bookings = SeedBookings
  /\ order = SeedOrder
  /\ today = SeedDate
  /\ now = 6 * 60 + 30
  /\ writes = 0
  /\ pending = [c \in Clients |-> NoRequest]
  /\ last = Idle
  /\ submitted = <<>>

----------------------------------------------------------------------------
(* Inputs of the requests the model explores *)

IdDraws == {MinId, MaxId}
IdInputs == {1, MinId}
NameInputs == {"JOEL", "Lee"}
ClassroomInputs == {"c301", "Z999"}
DateInputs == {SeedDate, SeedDate + 1}
NowInputs == {6 * 60 + 30, 10 * 60 + 30}
TimeInputs == {<<6, 15>>, <<10, 0>>, <<18, 0>>, <<24, 0>>}

FullBodies ==
  {Body(Fields, "Lee", c, d, s, e) :
     c \in ClassroomInputs, d \in DateInputs, s \in TimeInputs, e \in TimeInputs}

\* an id a client may put into a body: the id of a stored booking
BodyIds == {4}

\* a create for the classroom, date and window of the seed booking 1
SlotBodies == {Body(Fields, "Lee", "a401", SeedDate, <<8, 30>>, <<10, 0>>)}

\* the bodies of create requests: some carry an id, which Booking allows
CreateBodies ==
  FullBodies \cup SlotBodies \cup
    {WithId(b, i) : i \in BodyIds,
       b \in {f \in FullBodies :
                /\ f.booking_date = SeedDate + 1
                /\ f.start_time = <<10, 0>> /\ f.end_time = <<18, 0>>}}

PatchNames == {NoneStr, "LEE"}
PatchClassrooms == {NoneStr, "a401", "Z999"}
PatchDates == {NoneDate, SeedDate + 1}
PatchStarts == {NoneTime, <<9, 0>>}
PatchEnds == {NoneTime, <<18, 0>>}

FieldsSetOf(n, c, d, s, e) ==
  {f \in Fields :
     \/ f = "name" /\ n # NoneStr
     \/ f = "classroom" /\ c # NoneStr
     \/ f = "booking_date" /\ d # NoneDate
     \/ f = "start_time" /\ s # NoneTime
     \/ f = "end_time" /\ e # NoneTime}

FieldPatches ==
  {Body(FieldsSetOf(n, c, d, s, e), n, c, d, s, e) :
     n \in PatchNames, c \in PatchClassrooms, d \in PatchDates,
     s \in PatchStarts, e \in PatchEnds}

\* the bodies of update requests: some carry an id next to other fields
Patches ==
  FieldPatches \cup
    {WithId(p, i) : i \in BodyIds,
       p \in {f \in FieldPatches : f.fields_set \subseteq {"name", "booking_date"}}}

QueryTimes == TimeInputs \cup {<<9, 0>>}

Queries ==
  {Body({"booking_date", "start_time", "end_time"}, NoneStr, NoneStr, d, s, e) :
     d \in DateInputs, s \in QueryTimes, e \in QueryTimes}

----------------------------------------------------------------------------
(* The handlers *)

\* if not bookings.get(booking_id)
Absent(booking_id) == booking_id \notin DOMAIN bookings

\* the ownership test without .lower()
NotOwnerCaseSensitive(booking_id, name) ==
  bookings[booking_id].name # name

\* not bookings[booking_id]["name"].lower() == name.lower()
NotOwner(booking_id, name) ==
  Lower(bookings[booking_id].name) # Lower(name)

Remove(seq, x) == SelectSeq(seq, LAMBDA y : y # x)

\* a removal that removes nothing
DropNothing(f, k) == f

Drop(f, k) == [j \in DOMAIN f \ {k} |-> f[j]]

\* the record create_booking stores for the validated model b
NewRecord(booking_id, b) ==
  Rec(booking_id, b.name, b.classroom, b.booking_date, b.start_time, b.end_time)

\* randint with its lower limit one too low
RandIntLow == {MinId - 1, MaxId}

\* the values random.randint(10000000, 99999999) is taken to return
RandInt == IdDraws

\* create_booking, given the validated model b; the retry loop ends with a
\* draw that is not a key of the dictionary
HandleCreate(raw, b) ==
  LET unavailable_classrooms ==
        get_unavailable_classrooms(b.booking_date, b.start_time, b.end_time, NoneId)
  IN IF Upper(b.classroom) \in Range(unavailable_classrooms)
       THEN /\ last' = Fail("create", NoneId, NoneStr, raw, 409, "Conflict")
            /\ UNCHANGED <<bookings, order, writes, submitted>>
     ELSE /\ writes < MaxWrites
          /\ \E booking_id \in RandInt \ DOMAIN bookings :
               /\ bookings' = bookings @@ (booking_id :> NewRecord(booking_id, b))
               /\ order' = Append(order, booking_id)
               /\ submitted' = (booking_id :> raw) @@ submitted
               /\ last' = Answer("create", NoneId, NoneStr, raw, 200, "ok",
                                 NewRecord(booking_id, b), <<>>, <<>>)
          /\ writes' = writes + 1

\* change_booking with new_booking bound to the stored record itself instead
\* of a copy of it: the merge is written before the checks
HandleChangeInPlace(booking_id, raw, b, name) ==
  IF Absent(booking_id)
    THEN /\ last' = Fail("change", booking_id, name, raw, 404, "NotFound")
         /\ UNCHANGED <<bookings, order, writes, submitted>>
  ELSE IF NotOwner(booking_id, name)
    THEN /\ last' = Fail("change", booking_id, name, raw, 403, "Forbidden")
         /\ UNCHANGED <<bookings, order, writes, submitted>>
  ELSE
    LET new_booking == Merge(bookings[booking_id], b)
        v == validate_times(new_booking.booking_date, new_booking.start_time,
                            new_booking.end_time)
    IN /\ bookings' = [bookings EXCEPT ![booking_id] = new_booking]
       /\ submitted' = Drop(submitted, booking_id)
       /\ UNCHANGED order
       /\ IF v # "ok"
            THEN /\ last' = Fail("change", booking_id, name, raw, 422, v)
                 /\ UNCHANGED writes
          ELSE IF Upper(new_booking.classroom) \in
                    Range(get_unavailable_classrooms(new_booking.booking_date,
                            new_booking.start_time, new_booking.end_time, booking_id))
            THEN /\ last' = Fail("change", booking_id, name, raw, 409, "Conflict")
                 /\ UNCHANGED writes
          ELSE /\ writes < MaxWrites
               /\ last' = Answer("change", booking_id, name, raw, 200, "ok",
                                 new_booking, <<>>, <<>>)
               /\ writes' = writes + 1

\* change_booking, given the validated model b
HandleChange(booking_id, raw, b, name) ==
  IF Absent(booking_id)
    THEN /\ last' = Fail("change", booking_id, name, raw, 404, "NotFound")
         /\ UNCHANGED <<bookings, order, writes, submitted>>
  ELSE IF NotOwner(booking_id, name)
    THEN /\ last' = Fail("change", booking_id, name, raw, 403, "Forbidden")
         /\ UNCHANGED <<bookings, order, writes, submitted>>
  ELSE
    LET new_booking == Merge(bookings[booking_id], b)
        v == validate_times(new_booking.booking_date, new_booking.start_time,
                            new_booking.end_time)
    IN IF v # "ok"
         THEN /\ last' = Fail("change", booking_id, name, raw, 422, v)
              /\ UNCHANGED <<bookings, order, writes, submitted>>
       ELSE IF Upper(new_booking.classroom) \in
                 Range(get_unavailable_classrooms(new_booking.booking_date,
                         new_booking.start_time, new_booking.end_time, booking_id))
         THEN /\ last' = Fail("change", booking_id, name, raw, 409, "Conflict")
              /\ UNCHANGED <<bookings, order, writes, submitted>>
       ELSE /\ writes < MaxWrites
            /\ bookings' = [bookings EXCEPT ![booking_id] = Merge(@, b)]
            /\ last' = Answer("change", booking_id, name, raw, 200, "ok",
                              Merge(bookings[booking_id], b), <<>>, <<>>)
            /\ writes' = writes + 1
            /\ submitted' = Drop(submitted, booking_id)
            /\ UNCHANGED order

----------------------------------------------------------------------------
(* The requests, each served from its arrival to its answer *)

CreateBooking(raw) ==
  /\ last = Idle
  /\ IF ValidateBody(raw) # "ok"
       THEN /\ last' = Fail("create", NoneId, NoneStr, raw, 422, ValidateBody(raw))
            /\ UNCHANGED <<bookings, order, writes, submitted>>
     ELSE HandleCreate(raw, Validated(raw))
  /\ UNCHANGED <<today, now, pending>>

ChangeBooking(booking_id, raw, name) ==
  /\ last = Idle
  /\ IF ValidateBody(raw) # "ok"
       THEN /\ last' = Fail("change", booking_id, name, raw, 422, ValidateBody(raw))
            /\ UNCHANGED <<bookings, order, writes, submitted>>
     ELSE HandleChange(booking_id, raw, Validated(raw), name)
  /\ UNCHANGED <<today, now, pending>>

\* get_booking reading with bookings.pop(booking_id) instead of
\* bookings[booking_id]
GetBookingPop(booking_id, name) ==
  /\ last = Idle
  /\ IF Absent(booking_id)
       THEN /\ last' = Fail("get", booking_id, name, NoBody, 404, "NotFound")
            /\ UNCHANGED <<bookings, order, submitted>>
     ELSE IF NotOwner(booking_id, name)
       THEN /\ last' = Fail("get", booking_id, name, NoBody, 403, "Forbidden")
            /\ UNCHANGED <<bookings, order, submitted>>
     ELSE /\ last' = Answer("get", booking_id, name, NoBody, 200, "ok",
                            bookings[booking_id], <<>>, <<>>)
          /\ bookings' = Drop(bookings, booking_id)
          /\ order' = Remove(order, booking_id)
          /\ submitted' = Drop(submitted, booking_id)
  /\ UNCHANGED <<today, now, writes, pending>>

GetBooking(booking_id, name) ==
  /\ last = Idle
  /\ last' = IF Absent(booking_id)
               THEN Fail("get", booking_id, name, NoBody, 404, "NotFound")
             ELSE IF NotOwner(booking_id, name)
               THEN Fail("get", booking_id, name, NoBody, 403, "Forbidden")
             ELSE Answer("get", booking_id, name, NoBody, 200, "ok",
                         bookings[booking_id], <<>>, <<>>)
  /\ UNCHANGED <<bookings, order, today, now, writes, pending, submitted>>

DeleteBooking(booking_id, name) ==
  /\ last = Idle
  /\ IF Absent(booking_id)
       THEN /\ last' = Fail("delete", booking_id, name, NoBody, 404, "NotFound")
            /\ UNCHANGED <<bookings, order, writes, submitted>>
     ELSE IF NotOwner(booking_id, name)
       THEN /\ last' = Fail("delete", booking_id, name, NoBody, 403, "Forbidden")
            /\ UNCHANGED <<bookings, order, writes, submitted>>
     ELSE /\ writes < MaxWrites
          /\ bookings' = Drop(bookings, booking_id)
          /\ order' = Remove(order, booking_id)
          /\ submitted' = Drop(submitted, booking_id)
          /\ last' = Fail("delete", booking_id, name, NoBody, 200, "ok")
          /\ writes' = writes + 1
  /\ UNCHANGED <<today, now, pending>>

GetClassrooms ==
  /\ last = Idle
  /\ last' = Answer("classrooms", NoneId, NoneStr, NoBody, 200, "ok", NullBooking,
                    classrooms, <<>>)
  /\ UNCHANGED <<bookings, order, today, now, writes, pending, submitted>>

GetAvailableClassrooms(q) ==
  /\ last = Idle
  /\ last' =
       IF q.booking_date < today
         THEN Fail("available", NoneId, NoneStr, q, 422, "PastDate")
       ELSE IF validate_times(q.booking_date, q.start_time, q.end_time) # "ok"
         THEN Fail("available", NoneId, NoneStr, q, 422,
                   validate_times(q.booking_date, q.start_time, q.end_time))
       ELSE LET unavailable_classrooms ==
                  get_unavailable_classrooms(q.booking_date, q.start_time,
                                             q.end_time, NoneId)
            IN Answer("available", NoneId, NoneStr, q, 200, "ok", NullBooking,
                      AvailableClassrooms(unavailable_classrooms),
                      unavailable_classrooms)
  /\ UNCHANGED <<bookings, order, today, now, writes, pending, submitted>>

\* the answer has been sent: the server waits for the next request
Respond ==
  /\ last # Idle
  /\ last.kind # "drawing"
  /\ last' = Idle
  /\ UNCHANGED <<bookings, order, today, now, writes, pending, submitted>>

\* the wall clock: date.today() and datetime.now().time()
Tick ==
  /\ last = Idle
  /\ \/ /\ \E t \in NowInputs : t > now /\ now' = t
        /\ today' = today
     \/ /\ today + 1 \in DateInputs
        /\ today' = today + 1
        /\ \E t \in NowInputs : now' = t
  /\ UNCHANGED <<bookings, order, writes, pending, last, submitted>>

Next ==
  \/ \E raw \in CreateBodies : CreateBooking(raw)
  \/ \E booking_id \in IdInputs, raw \in Patches, name \in NameInputs :
       ChangeBooking(booking_id, raw, name)
  \/ \E booking_id \in IdInputs, name \in NameInputs : GetBooking(booking_id, name)
  \/ \E booking_id \in IdInputs, name \in NameInputs : DeleteBooking(booking_id, name)
  \/ \E q \in Queries : GetAvailableClassrooms(q)
  \/ GetClassrooms
  \/ Respond
  \/ Tick

Spec == Init /\ [][Next]_vars

----------------------------------------------------------------------------
(* Concurrent requests.  The handlers are coroutines without an await, so   *)
(* the event loop runs each of them from its first line to its return; what *)
(* interleaves is the validation of the arriving bodies and the handlers of *)
(* the requests that arrived before.                                        *)

ConcurrentCreates ==
  {b \in CreateBodies :
     /\ b.classroom = "c301"
     /\ b.start_time = <<10, 0>> /\ b.end_time = <<18, 0>>}

ConcurrentPatches ==
  {p \in Patches :
     /\ p.fields_set \in {{"classroom"}, {"booking_date"}}
     /\ p.classroom # "Z999"}

ConcurrentRequests ==
  {Request("create", NoneId, NoneStr, b) : b \in ConcurrentCreates}
    \cup {Request("change", 1, "JOEL", p) : p \in ConcurrentPatches}
    \cup {Request("change", MinId, "Lee", p) : p \in ConcurrentPatches}

\* the body of an arriving request is validated; the request then waits for
\* its handler, or is answered 422
Arrive(c, r) ==
  /\ last = Idle
  /\ pending[c] = NoRequest
  /\ IF ValidateBody(r.body) # "ok"
       THEN /\ last' = Fail(r.op, r.id, r.name, r.body, 422, ValidateBody(r.body))
            /\ UNCHANGED pending
     ELSE /\ pending' = [pending EXCEPT ![c] = r]
          /\ UNCHANGED last
  /\ UNCHANGED <<bookings, order, today, now, writes, submitted>>

\* the handler of a waiting request runs
Handle(c) ==
  /\ last = Idle
  /\ pending[c] # NoRequest
  /\ LET r == pending[c]
     IN IF r.op = "create"
          THEN HandleCreate(r.body, Validated(r.body))
        ELSE HandleChange(r.id, r.body, Validated(r.body), r.name)
  /\ pending' = [pending EXCEPT ![c] = NoRequest]
  /\ UNCHANGED <<today, now>>

NextConcurrent ==
  \/ \E c \in Clients, r \in ConcurrentRequests : Arrive(c, r)
  \/ \E c \in Clients : Handle(c)
  \/ Respond
  \/ Tick

SpecConcurrent == Init /\ [][NextConcurrent]_vars

----------------------------------------------------------------------------
(* The time window validator on its own *)

ValidatorTimes ==
  {<<h, m>> : h \in {6, 7, 8, 10, 17, 18, 19, 24}, m \in {0, 15, 30, 60}}

ValidatorInputs ==
  {Body({"booking_date", "start_time", "end_time"}, NoneStr, NoneStr, d, s, e) :
     d \in DateInputs, s \in ValidatorTimes, e \in ValidatorTimes}

\* a call validate_times(q.booking_date, q.start_time, q.end_time)
CallValidateTimes(q) ==
  /\ last = Idle
  /\ LET v == validate_times(q.booking_date, q.start_time, q.end_time)
     IN last' = Fail("validate_times", NoneId, NoneStr, q,
                     IF v = "ok" THEN 200 ELSE 422, v)
  /\ UNCHANGED <<bookings, order, today, now, writes, pending, submitted>>

NextValidator ==
  \/ \E q \in ValidatorInputs : CallValidateTimes(q)
  \/ Respond
  \/ Tick

SpecValidator == Init /\ [][NextValidator]_vars

----------------------------------------------------------------------------
(* The id loop of create_booking, draw by draw.  random.randint may return  *)
(* any id of its range at each draw, the keys of the dictionary included.   *)

LoopClassrooms == {"c301", "a401"}

LoopCreates ==
  {Body(Fields, "Lee", c, d, <<10, 0>>, <<18, 0>>) :
     c \in LoopClassrooms, d \in DateInputs}

\* create_booking is in its loop, holding the draw booking_id
Drawing(raw, booking_id) ==
  Answer("create", booking_id, NoneStr, raw, 0, "drawing", NullBooking, <<>>, <<>>)

\* create_booking up to its first draw
BeginCreate(raw) ==
  /\ last = Idle
  /\ IF ValidateBody(raw) # "ok"
       THEN last' = Fail("create", NoneId, NoneStr, raw, 422, ValidateBody(raw))
     ELSE LET b == Validated(raw)
              unavailable_classrooms ==
                get_unavailable_classrooms(b.booking_date, b.start_time,
                                           b.end_time, NoneId)
          IN IF Upper(b.classroom) \in Range(unavailable_classrooms)
               THEN last' = Fail("create", NoneId, NoneStr, raw, 409, "Conflict")
             ELSE \E booking_id \in RandInt : last' = Drawing(raw, booking_id)
  /\ UNCHANGED <<bookings, order, today, now, writes, pending, submitted>>

\* while booking_id in bookings: booking_id = random.randint(...)
Redraw ==
  /\ last.kind = "drawing"
  /\ last.id \in DOMAIN bookings
  /\ \E booking_id \in RandInt : last' = [last EXCEPT !.id = booking_id]
  /\ UNCHANGED <<bookings, order, today, now, writes, pending, submitted>>

\* a pass of the loop whose draw is not a key of the dictionary
RedrawFree ==
  /\ last.kind = "drawing"
  /\ last.id \in DOMAIN bookings
  /\ \E booking_id \in RandInt \ DOMAIN bookings :
       last' = [last EXCEPT !.id = booking_id]
  /\ UNCHANGED <<bookings, order, today, now, writes, pending, submitted>>

\* the loop has ended: the record is stored under booking_id and returned.
\* The counter of writes stops at its bound; the range of the draws bounds
\* the bookings this specification can create.
StoreId ==
  /\ last.kind = "drawing"
  /\ last.id \notin DOMAIN bookings
  /\ LET booking_id == last.id
         b == Validated(last.body)
     IN /\ bookings' = bookings @@ (booking_id :> NewRecord(booking_id, b))
        /\ order' = Append(order, booking_id)
        /\ submitted' = (booking_id :> last.body) @@ submitted
        /\ last' = Answer("create", NoneId, NoneStr, last.body, 200, "ok",
                          NewRecord(booking_id, b), <<>>, <<>>)
  /\ writes' = IF writes < MaxWrites THEN writes + 1 ELSE writes
  /\ UNCHANGED <<today, now, pending>>

NextIdLoop ==
  \/ \E raw \in LoopCreates : BeginCreate(raw)
  \/ Redraw
  \/ StoreId
  \/ \E booking_id \in IdInputs, name \in NameInputs : DeleteBooking(booking_id, name)
  \/ Respond
  \/ Tick

\* The handler runs on while it can, and a draw that can come up again and
\* again does come up: the generator does not avoid the free ids for ever.
SpecIdLoop ==
  Init /\ [][NextIdLoop]_vars
    /\ WF_vars(Redraw) /\ WF_vars(StoreId) /\ SF_vars(RedrawFree)

----------------------------------------------------------------------------
(* Properties *)

\* the stored times of a booking, read off the strings hour by hour
StartOf(b) == b.start_time[1] * 60 + b.start_time[2]
EndOf(b) == b.end_time[1] * 60 + b.end_time[2]

SameRoomAndDate(a, b) ==
  a.classroom = b.classroom /\ a.booking_date = b.booking_date

Disjoint(a, b) == EndOf(a) <= StartOf(b) \/ EndOf(b) <= StartOf(a)

\* C1: no two distinct stored bookings of the same classroom and date have
\* overlapping half-open windows.
C1_NoDoubleBooking ==
  \A j \in DOMAIN bookings, k \in DOMAIN bookings :
    (j # k /\ SameRoomAndDate(bookings[j], bookings[k]))
      => Disjoint(bookings[j], bookings[k])

\* a created booking shares classroom and date with another booking, and an
\* update of a booking has been accepted into a classroom and date that
\* another booking uses
C1_Witness ==
  /\ last.op = "change" /\ last.status = 200
  /\ \E k \in DOMAIN bookings \ {last.id} :
       SameRoomAndDate(bookings[k], bookings[last.id])
  /\ \E j \in IdDraws \cap DOMAIN bookings, k \in DOMAIN bookings \ IdDraws :
       SameRoomAndDate(bookings[j], bookings[k])

\* the stored bookings that overlap the window of a create body
Clashing(raw) ==
  {k \in DOMAIN bookings :
     /\ bookings[k].classroom = Upper(raw.classroom)
     /\ bookings[k].booking_date = raw.booking_date
     /\ EndOf(bookings[k]) > raw.start_time[1] * 60 + raw.start_time[2]
     /\ StartOf(bookings[k]) < raw.end_time[1] * 60 + raw.end_time[2]}

\* C2: a create request that passes validation is answered 409 Conflict
\* exactly when a stored booking of its classroom and date has end > s and
\* start < e; otherwise it is accepted.
C2_ConflictIffOverlap ==
  [][(last = Idle /\ last'.op = "create" /\ last'.status # 422)
       => /\ last'.status \in {200, 409}
          /\ (last'.status = 409) <=> (Clashing(last'.body) # {})]_vars

\* a create was accepted whose window starts exactly when a booking of the
\* same classroom and date ends, while a booking of another classroom
\* overlaps the window
C2_Witness ==
  /\ last.op = "create" /\ last.status = 200
  /\ \E k \in DOMAIN bookings :
       /\ SameRoomAndDate(bookings[k], last.booking)
       /\ EndOf(bookings[k]) = StartOf(last.booking)
  /\ \E k \in DOMAIN bookings :
       /\ bookings[k].classroom # last.booking.classroom
       /\ bookings[k].booking_date = last.booking.booking_date
       /\ ~Disjoint(bookings[k], last.booking)

\* a record whose times are well-formed strings obeys the window rules
WindowOk(b) ==
  /\ Len(b.start_time) = 2 /\ Len(b.end_time) = 2
  /\ EndOf(b) > StartOf(b)
  /\ EndOf(b) - StartOf(b) >= 60
  /\ StartOf(b) >= 7 * 60 /\ EndOf(b) <= 18 * 60
  /\ b.start_time[2] \in {0, 30} /\ b.end_time[2] \in {0, 30}

\* the record an update request would store: the stored fields, replaced by
\* the fields the patch carries
Patched(old, patch) ==
  [id |-> old.id,
   name |-> IF "name" \in patch.fields_set THEN patch.name ELSE old.name,
   classroom |-> IF "classroom" \in patch.fields_set
                   THEN Upper(patch.classroom) ELSE old.classroom,
   booking_date |-> IF "booking_date" \in patch.fields_set
                      THEN patch.booking_date ELSE old.booking_date,
   start_time |-> IF "start_time" \in patch.fields_set
                    THEN patch.start_time ELSE old.start_time,
   end_time |-> IF "end_time" \in patch.fields_set
                  THEN patch.end_time ELSE old.end_time]

IsOwner(k, n) == Lower(bookings[k].name) = Lower(n)

\* C3: an update by the owner that supplies only end_time, whose merged
\* record is a valid window overlapping another booking of the same
\* classroom and date, is answered 409 Conflict and changes no booking.
C3_EndOnlyUpdateConflicts ==
  [][(/\ last = Idle /\ last'.op = "change"
      /\ last'.body.fields_set = {"end_time"}
      /\ last'.id \in DOMAIN bookings
      /\ IsOwner(last'.id, last'.name)
      /\ LET m == Patched(bookings[last'.id], last'.body)
         IN /\ WindowOk(m)
            /\ ~(m.booking_date = today /\ (StartOf(m) < now \/ EndOf(m) < now))
            /\ \E k \in DOMAIN bookings \ {last'.id} :
                 SameRoomAndDate(bookings[k], m) /\ ~Disjoint(bookings[k], m))
       => (last'.status = 409 /\ bookings' = bookings)]_vars

\* C4: every stored booking has end > start, at least 60 minutes, within
\* 07:00-18:00, on :00 or :30.
C4_StoredWindowsValid ==
  \A k \in DOMAIN bookings : WindowOk(bookings[k])

\* an update that supplied only start_time has been stored, and a created
\* booking is stored
C4_Witness ==
  /\ last.op = "change" /\ last.status = 200
  /\ last.body.fields_set = {"start_time"}
  /\ bookings[last.id].start_time = last.body.start_time
  /\ IdDraws \cap DOMAIN bookings # {}

\* C5 as stated: every stored booking has an 8-digit id.
C5_AllIdsEightDigit ==
  \A k \in DOMAIN bookings :
    bookings[k].id >= 10000000 /\ bookings[k].id <= 99999999

\* C5, amended: every stored booking is a seed booking with id 1..4 or has an
\* 8-digit id, and no two bookings share an id.
C5_IdsSeedOrEightDigitUnique ==
  /\ \A k \in DOMAIN bookings :
       \/ bookings[k].id >= 1 /\ bookings[k].id <= 4
       \/ bookings[k].id >= 10000000 /\ bookings[k].id <= 99999999
  /\ \A j \in DOMAIN bookings, k \in DOMAIN bookings :
       j # k => bookings[j].id # bookings[k].id
  /\ \A k \in DOMAIN bookings :
       bookings[k].id <= 4 => k \in DOMAIN SeedBookings

\* two bookings made by create are stored next to the seed bookings
C5_Witness ==
  /\ Cardinality(DOMAIN bookings \ DOMAIN SeedBookings) = 2
  /\ DOMAIN bookings \cap DOMAIN SeedBookings # {}

\* C6 as stated: read, update and delete answer 404 when the id is absent,
\* else 403 when the caller is not the owner (names compared without case),
\* and proceed only otherwise; a 404 or 403 answer changes no booking.
\* (Read on the updates that supply start_time whenever they supply
\* end_time: the others are the subject of C3.)
C6_LookupThenOwner ==
  [][(/\ last = Idle /\ last'.op \in {"get", "change", "delete"}
      /\ ("end_time" \in last'.body.fields_set
            => "start_time" \in last'.body.fields_set))
       => /\ last'.id \notin DOMAIN bookings => last'.status = 404
          /\ (last'.id \in DOMAIN bookings /\ ~IsOwner(last'.id, last'.name))
               => last'.status = 403
          /\ (last'.id \in DOMAIN bookings /\ IsOwner(last'.id, last'.name))
               => last'.status \notin {403, 404}
          /\ last'.status \in {403, 404} => bookings' = bookings]_vars

\* C6, amended: the same for read and delete, and for an update whose body
\* the validators of the request body accept; an update whose body they
\* reject is answered 422 whatever the id and the caller, and changes no
\* booking.
C6_LookupThenOwnerAfterBody ==
  [][(last = Idle /\ last'.op \in {"get", "change", "delete"})
       => IF last'.op = "change" /\ ValidateBody(last'.body) # "ok"
            THEN last'.status = 422 /\ bookings' = bookings
          ELSE /\ last'.id \notin DOMAIN bookings => last'.status = 404
               /\ (last'.id \in DOMAIN bookings /\ ~IsOwner(last'.id, last'.name))
                    => last'.status = 403
               /\ (last'.id \in DOMAIN bookings /\ IsOwner(last'.id, last'.name))
                    => last'.status \notin {403, 404}
               /\ last'.status \in {403, 404} => bookings' = bookings]_vars

\* an update with an accepted body was refused to a caller who is not the
\* owner of a stored booking
C6_Witness ==
  /\ last.op = "change" /\ last.status = 403
  /\ last.id \in DOMAIN bookings
  /\ Lower(bookings[last.id].name) # Lower(last.name)
  /\ last.body.fields_set # {}

\* the record a read must return for a booking made from the body raw
Expected(k, raw) ==
  Rec(k, raw.name, Upper(raw.classroom), raw.booking_date, raw.start_time,
      raw.end_time)

\* C7: a read of a created booking under the submitted name, with no write
\* to it since, succeeds and returns the submitted name, date and times, the
\* classroom in uppercase and the id the create returned.
C7_RoundTrip ==
  (/\ last.op = "get"
   /\ last.id \in DOMAIN submitted
   /\ last.name = submitted[last.id].name)
    => /\ last.status = 200
       /\ last.booking = Expected(last.id, submitted[last.id])

\* a booking submitted with a lowercase classroom has been read back
C7_Witness ==
  /\ last.op = "get" /\ last.status = 200
  /\ last.id \in DOMAIN submitted
  /\ last.name = submitted[last.id].name
  /\ submitted[last.id].classroom # last.booking.classroom
  /\ writes = MaxWrites

NoDuplicates(seq) ==
  \A i \in DOMAIN seq, j \in DOMAIN seq : i # j => seq[i] # seq[j]

\* C8: the unavailable classrooms of an availability answer hold each
\* classroom code at most once.
C8_UnavailableNoDuplicates ==
  (last.op = "available" /\ last.status = 200) => NoDuplicates(last.unavailable)

\* a create body in flight that would clash with the record rec
ClashesWith(r, rec) ==
  /\ r.op = "create"
  /\ Upper(r.body.classroom) = rec.classroom
  /\ r.body.booking_date = rec.booking_date
  /\ r.body.end_time[1] * 60 + r.body.end_time[2] > StartOf(rec)
  /\ r.body.start_time[1] * 60 + r.body.start_time[2] < EndOf(rec)

\* C9: with create and update requests in flight together, every handler
\* checks and writes the dictionary in one step: an accepted write is in the
\* dictionary as answered, a create refused with 409 clashes with a booking
\* that is stored, and no interleaving reaches two overlapping bookings of
\* one classroom and date.
C9_NoDoubleBookingConcurrent ==
  /\ \A j \in DOMAIN bookings, k \in DOMAIN bookings :
       (j # k /\ SameRoomAndDate(bookings[j], bookings[k]))
         => Disjoint(bookings[j], bookings[k])
  /\ (last.op \in {"create", "change"} /\ last.status = 200)
       => /\ last.booking.id \in DOMAIN bookings
          /\ bookings[last.booking.id] = last.booking
  /\ (last.op = "create" /\ last.status = 409) => Clashing(last.body) # {}

\* a create has been stored while another validated create for the same
\* classroom, date and window is still waiting for its handler
C9_Witness ==
  /\ last.op = "create" /\ last.status = 200
  /\ \E c \in Clients : ClashesWith(pending[c], last.booking)

\* the conditions under which C10 says the validator accepts
Acceptable(q) ==
  LET s == q.start_time[1] * 60 + q.start_time[2]
      e == q.end_time[1] * 60 + q.end_time[2]
  IN /\ q.start_time[1] <= 23 /\ q.end_time[1] <= 23
     /\ s >= 7 * 60 /\ e <= 18 * 60
     /\ q.start_time[2] \in {0, 30} /\ q.end_time[2] \in {0, 30}
     /\ e - s >= 60
     /\ (q.booking_date # today \/ (s >= now /\ e >= now))

\* C10: validate_times accepts every window within 07:00-18:00, on :00 or
\* :30, of at least 60 minutes, that is not today or has neither time before
\* the current time.
C10_ValidatorAccepts ==
  (last.op = "validate_times" /\ Acceptable(last.body)) => last.kind = "ok"

\* the window 07:00-08:00 of today has been accepted
C10_Witness ==
  /\ last.op = "validate_times" /\ last.kind = "ok"
  /\ last.body.booking_date = today
  /\ last.body.start_time = <<7, 0>> /\ last.body.end_time = <<8, 0>>

\* C11: the id loop of create always ends, however many of the ids of the
\* range are taken, and ends with an id of 10,000,000..99,999,999 that is
\* not a key of the dictionary, so that the insert overwrites no booking.
C11_IdLoopTerminates ==
  /\ (last.kind = "drawing") ~> (last.op = "create" /\ last.status = 200)
  /\ [][(last.kind = "drawing" /\ last'.kind # "drawing")
          => /\ last.id >= 10000000 /\ last.id <= 99999999
             /\ last.id \notin DOMAIN bookings
             /\ DOMAIN bookings' = DOMAIN bookings \cup {last.id}
             /\ \A k \in DOMAIN bookings : bookings'[k] = bookings[k]]_vars

\* C12: an accepted update of booking k sets the fields its patch supplies to
\* the supplied values (the classroom in uppercase), keeps every other field
\* of k, keeps every other booking, and adds or removes no booking.
C12_UpdateFrame ==
  [][(last = Idle /\ last'.op = "change" /\ last'.status = 200)
       => /\ DOMAIN bookings' = DOMAIN bookings
          /\ order' = order
          /\ \A k \in DOMAIN bookings \ {last'.id} : bookings'[k] = bookings[k]
          /\ bookings'[last'.id] = Patched(bookings[last'.id], last'.body)
          /\ \A f \in Fields \ last'.body.fields_set :
               bookings'[last'.id][f] = bookings[last'.id][f]]_vars

\* a booking created in C301 has been moved to A401 by an update that gave
\* the classroom in lowercase and did not supply every field, next to
\* another created booking
C12_Witness ==
  /\ last.op = "change" /\ last.status = 200
  /\ last.id \in IdDraws
  /\ last.body.classroom = "a401"
  /\ bookings[last.id].classroom = "A401"
  /\ last.body.fields_set # Fields
  /\ "booking_date" \in last.body.fields_set

\* C13: a create, update or delete request that is answered with an error
\* (422, 409, 404 or 403) leaves the bookings dictionary exactly as it was.
C13_ErrorsChangeNothing ==
  [][(/\ last = Idle
      /\ last'.op \in {"create", "change", "delete"}
      /\ last'.status # 200)
       => /\ last'.status \in {422, 409, 404, 403}
          /\ bookings' = bookings
          /\ order' = order]_vars

\* an update by the owner, with a body the validators accept and that would
\* have changed the stored record, was refused on its merged record (by the
\* time window validator or the conflict check)
C13_Witness ==
  /\ last.op = "change" /\ last.status \in {422, 409}
  /\ ValidateBody(last.body) = "ok"
  /\ last.id \in DOMAIN bookings
  /\ Lower(bookings[last.id].name) = Lower(last.name)
  /\ bookings[last.id] # Patched(bookings[last.id], last.body)

\* C14: the id of a booking never changes: every stored record holds the key
\* it is stored under as its id, and an update, whatever its patch carries
\* (an id included), changes neither the id of a record nor the set of ids.
C14_IdImmutable ==
  /\ [](\A k \in DOMAIN bookings : bookings[k].id = k)
  /\ [][(last = Idle /\ last'.op = "change")
          => /\ DOMAIN bookings' = DOMAIN bookings
             /\ \A k \in DOMAIN bookings : bookings'[k].id = bookings[k].id]_vars

\* an update whose patch carried the id of another stored booking next to a
\* new name has been accepted, and the record still holds its own id
C14_Witness ==
  /\ last.op = "change" /\ last.status = 200
  /\ "id" \in last.body.fields_set
  /\ last.body.id # last.id
  /\ last.body.id \in DOMAIN bookings
  /\ "name" \in last.body.fields_set
  /\ bookings[last.id].name = last.body.name
  /\ bookings[last.id].id = last.id

\* an accepted delete removes exactly the record of its id
DeleteFrame ==
  (last = Idle /\ last'.op = "delete" /\ last'.status = 200)
    => /\ last'.id \in DOMAIN bookings
       /\ IsOwner(last'.id, last'.name)
       /\ DOMAIN bookings' = DOMAIN bookings \ {last'.id}
       /\ \A k \in DOMAIN bookings' : bookings'[k] = bookings[k]

\* an id that is not stored stays so until a create returns it
AbsentUntilCreated ==
  \A k \in DOMAIN bookings' \ DOMAIN bookings :
    last'.op = "create" /\ last'.status = 200 /\ last'.booking.id = k

\* a create is refused with Conflict only because of a booking that is stored
ConflictOnlyWithStored ==
  (last = Idle /\ last'.op = "create" /\ last'.status = 409)
    => Clashing(last'.body) # {}

\* C15 as stated: an accepted delete removes exactly record k and leaves the
\* others; from then on read, update and delete on k are answered NotFound
\* until a create returns k, and k no longer makes a create conflict.
\* (Read on a deleted seed booking, and on the updates that supply
\* start_time whenever they supply end_time.)
C15_DeletedIsNotFound ==
  [][/\ DeleteFrame
     /\ AbsentUntilCreated
     /\ ConflictOnlyWithStored
     /\ (/\ last = Idle /\ last'.op \in {"get", "change", "delete"}
         /\ last'.id \in DOMAIN SeedBookings \ DOMAIN bookings
         /\ ("end_time" \in last'.body.fields_set
               => "start_time" \in last'.body.fields_set))
          => last'.status = 404]_vars

\* C15, amended: the same, where the update on k is one whose body the
\* validators of the request body accept; an update whose body they reject
\* is answered 422 whether k is stored or not.
C15_DeleteFrame ==
  [][/\ DeleteFrame
     /\ AbsentUntilCreated
     /\ ConflictOnlyWithStored
     /\ (/\ last = Idle /\ last'.op \in {"get", "change", "delete"}
         /\ last'.id \notin DOMAIN bookings)
          => IF last'.op = "change" /\ ValidateBody(last'.body) # "ok"
               THEN last'.status = 422
             ELSE last'.status = 404]_vars

\* after the seed booking 1 was deleted, a create for its classroom, date
\* and window has been accepted
C15_Witness ==
  /\ last.op = "create" /\ last.status = 200
  /\ 1 \notin DOMAIN bookings
  /\ last.booking.classroom = SeedBookings[1].classroom
  /\ last.booking.booking_date = SeedBookings[1].booking_date
  /\ last.booking.start_time = SeedBookings[1].start_time
  /\ last.booking.end_time = SeedBookings[1].end_time
  /\ DOMAIN bookings = {2, 3, 4, last.booking.id}

\* the merged record m is one the claims call valid: a catalog classroom, a
\* window that obeys the rules, and no time of today that has passed
MergedValid(m) ==
  /\ m.classroom \in Range(classrooms)
  /\ WindowOk(m)
  /\ ~(m.booking_date = today /\ (StartOf(m) < now \/ EndOf(m) < now))

\* the stored bookings other than k that overlap the merged record m
OthersClashing(k, m) ==
  {j \in DOMAIN bookings \ {k} :
     SameRoomAndDate(bookings[j], m) /\ ~Disjoint(bookings[j], m)}

\* C16: an update by the owner whose merged record is valid is accepted when
\* the merged window overlaps no booking other than k itself (k's own
\* previous window does not count), and is answered 409 Conflict when it
\* overlaps another booking of the merged classroom and date.
\* (The conflict half is read on the updates that supply start_time
\* whenever they supply end_time: the others are the subject of C3.)
C16_UpdateSkipsItself ==
  [][(/\ last = Idle /\ last'.op = "change"
      /\ last'.id \in DOMAIN bookings
      /\ IsOwner(last'.id, last'.name)
      /\ MergedValid(Patched(bookings[last'.id], last'.body)))
       => LET m == Patched(bookings[last'.id], last'.body)
          IN /\ OthersClashing(last'.id, m) = {} => last'.status = 200
             /\ (/\ OthersClashing(last'.id, m) # {}
                 /\ ("end_time" \in last'.body.fields_set
                       => "start_time" \in last'.body.fields_set))
                  => last'.status = 409]_vars

\* C17: an update by the owner that supplies only a name or a catalog
\* classroom, on a booking of today whose start time is earlier than the
\* current time, is answered 422 PastTime and leaves the booking unchanged.
C17_StaleWindowRejected ==
  [][(/\ last = Idle /\ last'.op = "change"
      /\ last'.id \in DOMAIN bookings
      /\ IsOwner(last'.id, last'.name)
      /\ last'.body.fields_set # {}
      /\ last'.body.fields_set \subseteq {"name", "classroom"}
      /\ ("classroom" \in last'.body.fields_set
            => Upper(last'.body.classroom) \in Range(classrooms))
      /\ bookings[last'.id].booking_date = today
      /\ StartOf(bookings[last'.id]) < now)
       => /\ last'.status = 422
          /\ last'.kind = "PastTime"
          /\ bookings' = bookings]_vars

\* an update of the name alone was refused with PastTime on a booking of
\* today that has started and not yet ended
C17_Witness ==
  /\ last.op = "change" /\ last.status = 422 /\ last.kind = "PastTime"
  /\ last.body.fields_set = {"name"}
  /\ last.id \in DOMAIN bookings
  /\ bookings[last.id].booking_date = today
  /\ StartOf(bookings[last.id]) < now
  /\ EndOf(bookings[last.id]) >= now
  /\ bookings[last.id].name # last.body.name

\* the times of a validator call, in minutes, when both strings parse
Parses(q) ==
  /\ q.start_time[1] <= 23 /\ q.start_time[2] <= 59
  /\ q.end_time[1] <= 23 /\ q.end_time[2] <= 59

QStart(q) == q.start_time[1] * 60 + q.start_time[2]
QEnd(q) == q.end_time[1] * 60 + q.end_time[2]

QOutOfHours(q) == QStart(q) < 7 * 60 \/ QEnd(q) > 18 * 60
QMisaligned(q) == q.start_time[2] \notin {0, 30} \/ q.end_time[2] \notin {0, 30}
QPast(q) == q.booking_date = today /\ (QStart(q) < now \/ QEnd(q) < now)
QShort(q) == QEnd(q) - QStart(q) < 60

\* C18: on times that parse, the validator reports the first failing check
\* in the order OutOfHours, NotHalfHourAligned, PastTime, TooShort: a window
\* that starts before 07:00 or ends after 18:00 always gives OutOfHours, and
\* a window within hours, aligned and not past with end <= start gives
\* TooShort.
C18_CheckOrder ==
  (last.op = "validate_times" /\ Parses(last.body))
    => LET q == last.body
       IN /\ QOutOfHours(q) => last.kind = "OutOfHours"
          /\ (~QOutOfHours(q) /\ QMisaligned(q))
               => last.kind = "NotHalfHourAligned"
          /\ (~QOutOfHours(q) /\ ~QMisaligned(q) /\ QPast(q))
               => last.kind = "PastTime"
          /\ (~QOutOfHours(q) /\ ~QMisaligned(q) /\ ~QPast(q) /\ QShort(q))
               => last.kind = "TooShort"
          /\ (~QOutOfHours(q) /\ ~QMisaligned(q) /\ ~QPast(q)
                /\ QEnd(q) <= QStart(q))
               => last.kind = "TooShort"

\* a window of today that is out of hours, misaligned, past and too short at
\* once has been answered OutOfHours
C18_Witness ==
  /\ last.op = "validate_times" /\ last.kind = "OutOfHours"
  /\ Parses(last.body)
  /\ QMisaligned(last.body) /\ QPast(last.body) /\ QShort(last.body)

\* the place of a classroom code in the catalog
CatalogIndex(c) == CHOOSE i \in DOMAIN classrooms : classrooms[i] = c

\* C19: in every availability answer the available and the unavailable
\* classrooms share no classroom, together they are the catalog, every
\* unavailable entry is a catalog classroom, and the available list is in
\* catalog order.
C19_AvailabilityPartition ==
  (last.op = "available" /\ last.status = 200)
    => /\ Range(last.available) \cap Range(last.unavailable) = {}
       /\ Range(last.available) \cup Range(last.unavailable) = Range(classrooms)
       /\ Range(last.unavailable) \subseteq Range(classrooms)
       /\ \A i \in DOMAIN last.available, j \in DOMAIN last.available :
            i < j => CatalogIndex(last.available[i]) < CatalogIndex(last.available[j])

\* an availability query for tomorrow has been answered with the classroom
\* of a booking made by create among the unavailable ones
C19_Witness ==
  /\ last.op = "available" /\ last.status = 200
  /\ last.body.booking_date = SeedDate + 1
  /\ \E k \in IdDraws \cap DOMAIN bookings :
       bookings[k].classroom \in Range(last.unavailable)
  /\ Len(last.available) = Len(classrooms) - 1

\* the classrooms of the stored bookings that overlap the window of a query
Occupied(q) ==
  {bookings[k].classroom :
     k \in {j \in DOMAIN bookings :
              /\ bookings[j].booking_date = q.booking_date
              /\ EndOf(bookings[j]) > QStart(q)
              /\ StartOf(bookings[j]) < QEnd(q)}}

\* C20: get_booking, get_classrooms and get_available_classrooms change no
\* booking; a read is answered from the stored record alone, so that reads
\* of the same id and name with no write in between return the same data;
\* an availability answer lists the bookings stored at the call.
C20_ReadsArePure ==
  [][(last = Idle /\ last'.op \in {"get", "classrooms", "available"})
       => /\ bookings' = bookings
          /\ order' = order
          /\ (last'.op = "get" /\ last'.id \in DOMAIN bookings
                /\ IsOwner(last'.id, last'.name))
               => (last'.status = 200 /\ last'.booking = bookings[last'.id])
          /\ (last'.op = "get" /\ last'.status = 200)
               => (last'.id \in DOMAIN bookings
                     /\ last'.booking = bookings'[last'.id])
          /\ (last'.op = "available" /\ last'.status = 200)
               => Range(last'.unavailable) = Occupied(last'.body)
          /\ (last'.op = "classrooms") => last'.available = classrooms]_vars

\* the seed booking 1, renamed by an update, has been read back under its
\* new name after two writes
C20_Witness ==
  /\ last.op = "get" /\ last.status = 200
  /\ last.id = 1
  /\ last.booking.name = "LEE"
  /\ last.booking = bookings[1]
  /\ writes = MaxWrites

====
